---- MODULE Spec2Model ----
(***************************************************************************)
(* RecolorCalculator (mediapipe/calculators/image/recolor_calculator.cc),  *)
(* build with the GPU code compiled in (MEDIAPIPE_DISABLE_GPU undefined).  *)
(*                                                                         *)
(* One calculator instance is driven by the framework through              *)
(*   GetContract -> Open -> Process* -> Close.                             *)
(* The framework calls Open only after GetContract accepted the node,      *)
(* Process only after Open succeeded, stops calling Process after a        *)
(* Process call returned an error, and calls Close once after a            *)
(* successful Open.  A failed CHECK (a missing tag, Get() on an empty      *)
(* packet) aborts the process: phase "crashed".                            *)
(*                                                                         *)
(* Images are rows of interleaved pixels (height 1).  The float arithmetic *)
(* of the blend is modelled by exact rational arithmetic followed by the   *)
(* round-half-to-even, saturating conversion to 8 bits.                    *)
(***************************************************************************)
EXTENDS Integers, Sequences, FiniteSets

\* ------------------------------------------------------------------ bounds
MaxFrames == 2
MaxWidth  == 2

\* ------------------------------------------------------------ configuration
InputTags  == {"IMAGE", "IMAGE_GPU", "MASK", "MASK_GPU"}
OutputTags == {"IMAGE", "IMAGE_GPU"}

MaskChannel == {"UNKNOWN", "RED", "ALPHA"}

\* color { r g b } values of the options (int32 fields, not range checked).
Colors == {<<0, 0, 255>>, <<255, 128, 0>>}

\* RecolorCalculatorOptions as read by LoadOptions.  An unset color reads as
\* the default message (0, 0, 0).
OptionsSet ==
  [has_color : {TRUE}, color : Colors, mask_channel : MaskChannel]
  \cup [has_color : {FALSE}, color : {<<0, 0, 0>>}, mask_channel : MaskChannel]

\* Handles GlhCreateProgram can leave in program_ ; 0 is "no program".
GlHandles == {0, 1, 2}

\* ---------------------------------------------------------------- packets
EmptyPacket == [empty |-> TRUE, channels |-> 0, data |-> <<>>]

Frame(c, pixels) == [empty |-> FALSE, channels |-> c, data |-> pixels]

Row(w, px) == [i \in 1..w |-> px]

Widths == 1..MaxWidth

\* RGB source rows: the two one-pixel rows, and for every wider width the row
\* that alternates the two colours.
RgbRows(w) ==
  IF w = 1
    THEN {<<(<<200, 100, 50>>)>>, <<(<<255, 255, 255>>)>>}
    ELSE {[i \in 1..w |-> IF i % 2 = 1 THEN <<200, 100, 50>> ELSE <<255, 255, 255>>]}

\* ImageFrame packets on IMAGE: none, RGB rows, and one GRAY8 and one RGBA
\* frame (the channel counts RenderCpu refuses).
CpuImages ==
  {EmptyPacket}
  \cup {Frame(3, r) : r \in UNION {RgbRows(w) : w \in Widths}}
  \cup {Frame(1, <<(<<128>>)>>), Frame(4, <<(<<200, 100, 50, 255>>)>>)}

\* Weight planes: width 1 carries 0, 128 and 255; wider planes are constant
\* 0, constant 255 or a ramp.
Ramp(w) == [i \in 1..w |-> IF i = 1 THEN 0 ELSE IF i = 2 THEN 255 ELSE 128]

WeightPlanes(w) ==
  IF w = 1 THEN {<<0>>, <<128>>, <<255>>}
           ELSE {Row(w, 0), Row(w, 255), Ramp(w)}

\* Mask pixel of c channels whose plane 0 is v; a fourth plane (alpha) is the
\* complement of plane 0, so that the R and A planes always differ.
MaskPixel(c, v) ==
  IF c = 1 THEN <<v>>
  ELSE IF c = 3 THEN <<v, v, v>>
  ELSE <<v, 0, 0, 255 - v>>

MaskChannelCounts == {1, 3, 4}

MaskFrame(c, p) == Frame(c, [i \in 1..Len(p) |-> MaskPixel(c, p[i])])

\* ImageFrame packets on MASK: none, and gray, RGB and RGBA masks of every
\* width.
CpuMasks ==
  {EmptyPacket}
  \cup {MaskFrame(c, p) : c \in MaskChannelCounts,
                          p \in UNION {WeightPlanes(w) : w \in Widths}}

\* GpuBuffer packets: contents are opaque to the calculator code.
GpuBuffer == [empty |-> FALSE, channels |-> 4, data |-> <<>>]
GpuPackets == {EmptyPacket, GpuBuffer}

IsEmptyNever(packet) == FALSE

\* InputStream::IsEmpty(): no packet on the stream at this timestamp.
IsEmpty(packet) == packet.empty

\* The input tags a path reads.
ImageTag(gpu) == IF gpu THEN "IMAGE_GPU" ELSE "IMAGE"
MaskTag(gpu)  == IF gpu THEN "MASK_GPU" ELSE "MASK"

\* ------------------------------------------------------------------ state
VARIABLES
  phase,          \* position of the instance in the framework's life cycle
  in_tags,        \* cc->Inputs() tags of the node
  out_tags,       \* cc->Outputs() tags of the node
  contract_gpu,   \* GetContract's local use_gpu (GlCalculatorHelper::UpdateContract ran)
  options,        \* cc->Options<RecolorCalculatorOptions>()
  initialized_,
  color_,
  mask_channel_,
  use_gpu_,
  gpu_helper_,    \* TRUE once gpu_helper_.Open(cc) has succeeded
  program_,
  outputs,        \* packets added to the output streams: [tag, ts]
  clock,          \* input timestamp of the latest Process call
  textures,       \* per-frame GlTextures currently held
  created,        \* per-frame textures created so far
  init_writes,    \* writes of program_ made by InitGpu so far
  gl_calls,       \* kinds of RunInGlContext requests made so far
  last            \* inputs and result of the latest Process call

vars == <<phase, in_tags, out_tags, contract_gpu, options, initialized_, color_,
          mask_channel_, use_gpu_, gpu_helper_, program_, outputs, clock,
          textures, created, init_writes, gl_calls, last>>

NoCall ==
  [called |-> FALSE, ts |-> 0, img |-> EmptyPacket, mask |-> EmptyPacket,
   status |-> "none", emitted |-> 0, plane |-> -1, ub |-> FALSE,
   mask_full |-> <<>>, out |-> <<>>, was_initialized |-> FALSE,
   program_before |-> 0, made |-> 0]

Init ==
  /\ phase = "constructed"
  /\ in_tags = {}
  /\ out_tags = {}
  /\ contract_gpu = FALSE
  /\ options = [has_color |-> FALSE, color |-> <<0, 0, 0>>, mask_channel |-> "UNKNOWN"]
  /\ initialized_ = FALSE
  /\ color_ = <<>>
  /\ mask_channel_ = "UNKNOWN"
  /\ use_gpu_ = FALSE
  /\ gpu_helper_ = FALSE
  /\ program_ = 0
  /\ outputs = <<>>
  /\ clock = 0
  /\ textures = {}
  /\ created = 0
  /\ init_writes = 0
  /\ gl_calls = {}
  /\ last = NoCall

\* ------------------------------------------------------------ GetContract
Xor(a, b) == a # b

ContractUseGpu(ins, outs) ==
  "IMAGE_GPU" \in ins \/ "MASK_GPU" \in ins \/ "IMAGE_GPU" \in outs

GetContractStatus(ins, outs) ==
  IF ins = {} THEN "error"
  ELSE IF outs = {} THEN "error"
  ELSE IF ~Xor("IMAGE" \in ins, "IMAGE_GPU" \in ins) THEN "error"
  ELSE IF ~Xor("IMAGE" \in outs, "IMAGE_GPU" \in outs) THEN "error"
  ELSE "ok"

GetContract ==
  /\ phase = "constructed"
  /\ \E ins \in SUBSET InputTags, outs \in SUBSET OutputTags :
       /\ in_tags' = ins
       /\ out_tags' = outs
       /\ contract_gpu' = (GetContractStatus(ins, outs) = "ok" /\ ContractUseGpu(ins, outs))
       /\ phase' = IF GetContractStatus(ins, outs) = "ok" THEN "contract_ok" ELSE "rejected"
  /\ UNCHANGED <<options, initialized_, color_, mask_channel_, use_gpu_, gpu_helper_,
                 program_, outputs, clock, textures, created, init_writes, gl_calls, last>>

\* ------------------------------------------------------------------- Open
\* LoadOptions: mask_channel_ is assigned before the color check; the three
\* components are appended to color_ only when the options carry a color.
LoadOptionsNoColorCheck(opts, color) ==
  [status |-> "ok",
   mask_channel_ |-> opts.mask_channel,
   color_ |-> color \o <<opts.color[1], opts.color[2], opts.color[3]>>]

LoadOptions(opts, color) ==
  IF ~opts.has_color
    THEN [status |-> "error", mask_channel_ |-> opts.mask_channel, color_ |-> color]
    ELSE [status |-> "ok",
          mask_channel_ |-> opts.mask_channel,
          color_ |-> color \o <<opts.color[1], opts.color[2], opts.color[3]>>]

Open ==
  /\ phase = "contract_ok"
  /\ \E opts \in OptionsSet, helper_ok \in BOOLEAN :
       LET gpu  == "IMAGE_GPU" \in in_tags
           load == LoadOptions(opts, color_)
       IN
       /\ gpu \/ helper_ok          \* gpu_helper_.Open is called on the GPU path only
       /\ options' = opts
       /\ use_gpu_' = gpu
       /\ IF gpu /\ ~helper_ok
            THEN \* MP_RETURN_IF_ERROR(gpu_helper_.Open(cc))
                 /\ gpu_helper_' = FALSE
                 /\ UNCHANGED <<color_, mask_channel_>>
                 /\ phase' = "open_failed"
            ELSE /\ gpu_helper_' = gpu
                 /\ color_' = load.color_
                 /\ mask_channel_' = load.mask_channel_
                 /\ phase' = IF load.status = "ok" THEN "opened" ELSE "open_failed"
  /\ UNCHANGED <<in_tags, out_tags, contract_gpu, initialized_, program_, outputs,
                 clock, textures, created, init_writes, gl_calls, last>>

\* ------------------------------------------------------------ the CPU blend
\* luminance = LumaScaled / (1000 * 255), weight = w / 255, so
\* mix_value = w * LumaScaled / MixDen.
LumaScaled(c) == c[1] * 299 + c[2] * 587 + c[3] * 114

MixDen == 255 * 1000 * 255

MixNumIgnoringWeight(w, c) == 255 * LumaScaled(c)

MixNum(w, c) == w * LumaScaled(c)

\* saturate_cast<uchar> of a value given as whole part ip and remainder rem
\* over den: cvRound (round half to even), then clamp to 0..255.
RoundHalfEven(ip, rem, den) ==
  IF 2 * rem > den THEN ip + 1
  ELSE IF 2 * rem < den THEN ip
  ELSE IF ip % 2 = 0 THEN ip ELSE ip + 1

SaturateUchar(v) == IF v < 0 THEN 0 ELSE IF v > 255 THEN 255 ELSE v

\* a * (1 - q/MixDen) + b * q/MixDen = a + (b - a) * q / MixDen, computed in
\* two limbs so that every intermediate stays below 2^31.
MixChannel(a, b, q) ==
  LET d   == b - a
      hi  == d * (q \div 1000)
      lo  == d * (q % 1000)
      r   == (hi % (255 * 255)) * 1000 + lo
      ip  == a + (hi \div (255 * 255)) + (r \div MixDen)
      rem == r % MixDen
  IN SaturateUchar(RoundHalfEven(ip, rem, MixDen))

\* The body of the pixel loop: color1 = source pixel, color2 = color_.
MixColor(color1, color2, w) ==
  LET q == MixNum(w, color1)
  IN <<MixChannel(color1[1], color2[1], q),
       MixChannel(color1[2], color2[2], q),
       MixChannel(color1[3], color2[3], q)>>

\* cv::split: plane k holds channel k of every pixel.
Split(mat) ==
  [k \in 1..mat.channels |-> [i \in 1..Len(mat.data) |-> mat.data[i][k]]]

\* cv::resize(mask_mat, mask_full, input_mat.size()) with the default
\* INTER_LINEAR on one row: destination x samples the source at
\* ((2x+1) * m - n) / (2n), clamped to the row, and rounds half up.
Resize(plane, n) ==
  LET m == Len(plane)
      At(x) ==
        LET num == (2 * (x - 1) + 1) * m - n
            den == 2 * n
            sx0 == num \div den
            fr0 == num % den
            sx  == IF sx0 < 0 THEN 0 ELSE IF sx0 >= m - 1 THEN m - 1 ELSE sx0
            fr  == IF sx0 < 0 \/ sx0 >= m - 1 THEN 0 ELSE fr0
        IN IF fr = 0 THEN plane[sx + 1]
           ELSE (plane[sx + 1] * (den - fr) + plane[sx + 2] * fr + n) \div den
  IN [x \in 1..n |-> At(x)]

\* ---------------------------------------------------------------- RenderCpu
\* Result of one Render call; the GPU fields are filled by RenderGpu.
Outcome(status, packets, plane, ub, mask_full, out, texs, made) ==
  [status |-> status, packets |-> packets, plane |-> plane, ub |-> ub,
   mask_full |-> mask_full, out |-> out, textures |-> texs, made |-> made]

ChannelsOkRgba(c) == c >= 3

\* RET_CHECK(input_mat.channels() == 3)
ChannelsOk(c) == c = 3

\* Index into the split channels: channels[3] for ALPHA, channels[0] otherwise.
PlaneIndex(mc) == IF mc = "ALPHA" THEN 3 ELSE 0

\* The planes mask_mat can hold after the channel selection.  channels[3] of a
\* mask with fewer than four channels is a read past the end of the vector:
\* the call aborts, or goes on with whatever cv::Mat lies there.
SelectedPlanes(mask, mc) ==
  IF mask.channels > 1
    THEN IF PlaneIndex(mc) < mask.channels
           THEN {[crash |-> FALSE, ub |-> FALSE, plane |-> PlaneIndex(mc),
                  weights |-> Split(mask)[PlaneIndex(mc) + 1]]}
           ELSE {[crash |-> TRUE, ub |-> TRUE, plane |-> PlaneIndex(mc), weights |-> <<>>]}
                \cup {[crash |-> FALSE, ub |-> TRUE, plane |-> PlaneIndex(mc), weights |-> g] :
                        g \in UNION {WeightPlanes(w) : w \in Widths}}
    ELSE {[crash |-> FALSE, ub |-> FALSE, plane |-> 0,
           weights |-> [i \in 1..Len(mask.data) |-> mask.data[i][1]]]}

OutputTimestampUnset(ts) == 0

\* cc->InputTimestamp(), the timestamp given to the output packet.
OutputTimestamp(ts) == ts

RenderCpu(ins, outs, img, mask, ts, color, mc, texs) ==
  IF "MASK" \notin ins
    THEN {Outcome("crash", <<>>, -1, FALSE, <<>>, <<>>, texs, 0)}
  ELSE IF IsEmpty(mask)
    THEN {Outcome("ok", <<>>, -1, FALSE, <<>>, <<>>, texs, 0)}
  ELSE IF "IMAGE" \notin ins \/ img.empty \/ mask.empty
    THEN \* Get<ImageFrame>() on a packet that holds nothing
         {Outcome("crash", <<>>, -1, FALSE, <<>>, <<>>, texs, 0)}
  ELSE IF ~ChannelsOk(img.channels)
    THEN {Outcome("error", <<>>, -1, FALSE, <<>>, <<>>, texs, 0)}
  ELSE
    { IF s.crash
        THEN Outcome("crash", <<>>, s.plane, s.ub, <<>>, <<>>, texs, 0)
        ELSE LET mask_full == Resize(s.weights, Len(img.data))
                 out == [i \in 1..Len(img.data) |->
                           MixColor(img.data[i], color, mask_full[i])]
             IN IF "IMAGE" \notin outs
                  THEN Outcome("crash", <<>>, s.plane, s.ub, mask_full, out, texs, 0)
                  ELSE Outcome("ok", <<[tag |-> "IMAGE", ts |-> OutputTimestamp(ts)]>>,
                               s.plane, s.ub, mask_full, out, texs, 0)
      : s \in SelectedPlanes(mask, mc) }

\* ---------------------------------------------------------------- RenderGpu
PerFrameTextures == {"img_tex", "mask_tex", "dst_tex"}

\* gpu_helper_.CreateSourceTexture (twice) and CreateDestinationTexture.
CreateTextures(held) == held \cup PerFrameTextures

ReleaseSourcesOnly(held) == held \ {"img_tex", "mask_tex"}

\* img_tex.Release(); mask_tex.Release(); dst_tex.Release();
ReleaseTextures(held) == held \ PerFrameTextures

\* GlRender draws with program_ bound; it reads program_ and writes nothing
\* the calculator keeps.
GlRender(program) == program

RenderGpu(ins, outs, img, mask, ts, program, texs) ==
  IF "MASK_GPU" \notin ins
    THEN {Outcome("crash", <<>>, -1, FALSE, <<>>, <<>>, texs, 0)}
  ELSE IF IsEmpty(mask)
    THEN {Outcome("ok", <<>>, -1, FALSE, <<>>, <<>>, texs, 0)}
  ELSE IF "IMAGE_GPU" \notin ins \/ img.empty \/ mask.empty
    THEN \* Get<GpuBuffer>() on a packet that holds nothing
         {Outcome("crash", <<>>, -1, FALSE, <<>>, <<>>, texs, 0)}
  ELSE
    LET held == CreateTextures(texs)
        made == Cardinality(held \ texs)
        used == GlRender(program)
    IN IF "IMAGE_GPU" \notin outs
         THEN {Outcome("crash", <<>>, -1, FALSE, <<>>, <<>>, held, made)}
         ELSE {Outcome("ok", <<[tag |-> "IMAGE_GPU", ts |-> OutputTimestamp(ts)]>>,
                       -1, FALSE, <<>>, <<>>, ReleaseTextures(held), made)}

\* InitGpu: GlhCreateProgram leaves handle h in program_ (0 when the shader
\* does not compile or link); RET_CHECK(program_).
InitGpu(h) == [status |-> IF h = 0 THEN "error" ELSE "ok", program |-> h]

InitializedNeverSet(status) == FALSE

\* initialized_ after "MP_RETURN_IF_ERROR(InitGpu(cc)); initialized_ = true;"
InitializedAfterInit(status) == status = "ok"

\* ------------------------------------------------------------------ Process
\* The lambda Process runs in the GL context: lazy InitGpu, then RenderGpu.
\* Each element is the Render outcome extended with the instance fields the
\* lambda leaves behind.
GpuLambda(ins, outs, img, mask, ts, initialized, program, texs) ==
  IF ~initialized
    THEN UNION {
           LET init == InitGpu(h) IN
           IF init.status # "ok"
             THEN {[r |-> Outcome("error", <<>>, -1, FALSE, <<>>, <<>>, texs, 0),
                    initialized |-> initialized, program |-> init.program, writes |-> 1]}
             ELSE {[r |-> o, initialized |-> InitializedAfterInit(init.status),
                    program |-> init.program, writes |-> 1] :
                     o \in RenderGpu(ins, outs, img, mask, ts, init.program, texs)}
           : h \in GlHandles }
    ELSE {[r |-> o, initialized |-> initialized, program |-> program, writes |-> 0] :
            o \in RenderGpu(ins, outs, img, mask, ts, program, texs)}

CpuCall(ins, outs, img, mask, ts, color, mc, initialized, program, texs) ==
  {[r |-> o, initialized |-> initialized, program |-> program, writes |-> 0] :
     o \in RenderCpu(ins, outs, img, mask, ts, color, mc, texs)}

PhaseAfter(status) ==
  IF status = "ok" THEN "opened" ELSE IF status = "error" THEN "failed" ELSE "crashed"

Process ==
  /\ phase = "opened"
  /\ clock < MaxFrames
  /\ \E img \in (IF use_gpu_ THEN GpuPackets ELSE CpuImages),
        mask \in (IF MaskTag(use_gpu_) \notin in_tags THEN {EmptyPacket}
                  ELSE IF use_gpu_ THEN GpuPackets ELSE CpuMasks) :
       LET ts == clock + 1
           results ==
             IF use_gpu_
               THEN GpuLambda(in_tags, out_tags, img, mask, ts, initialized_,
                              program_, textures)
               ELSE CpuCall(in_tags, out_tags, img, mask, ts, color_, mask_channel_,
                            initialized_, program_, textures)
       IN \* Process runs for a timestamp at which some input stream has a packet.
          /\ (img.empty /\ mask.empty)
               => (in_tags \ {ImageTag(use_gpu_), MaskTag(use_gpu_)} # {})
          /\ \E c \in results :
            /\ clock' = ts
            /\ phase' = PhaseAfter(c.r.status)
            /\ outputs' = outputs \o c.r.packets
            /\ initialized_' = c.initialized
            /\ program_' = c.program
            /\ init_writes' = init_writes + c.writes
            /\ textures' = c.r.textures
            /\ created' = created + c.r.made
            /\ gl_calls' = IF use_gpu_
                             THEN gl_calls \cup {[from |-> "Process", use_gpu |-> use_gpu_,
                                                  helper |-> gpu_helper_]}
                             ELSE gl_calls
            /\ last' = [called |-> TRUE, ts |-> ts, img |-> img, mask |-> mask,
                        status |-> c.r.status, emitted |-> Len(c.r.packets),
                        plane |-> c.r.plane, ub |-> c.r.ub,
                        mask_full |-> c.r.mask_full, out |-> c.r.out,
                        was_initialized |-> initialized_,
                        program_before |-> program_, made |-> c.r.made]
  /\ UNCHANGED <<in_tags, out_tags, contract_gpu, options, color_, mask_channel_,
                 use_gpu_, gpu_helper_>>

\* -------------------------------------------------------------------- Close
\* Close asks gpu_helper_ to run the program deletion whether or not the
\* helper was opened.  On an unopened helper the request dereferences a
\* helper without a GL context: the call aborts or comes back without effect.
Close ==
  /\ phase \in {"opened", "failed"}
  /\ gl_calls' = gl_calls \cup {[from |-> "Close", use_gpu |-> use_gpu_,
                                 helper |-> gpu_helper_]}
  /\ IF gpu_helper_
       THEN /\ program_' = 0
            /\ phase' = "closed"
       ELSE /\ program_' = program_
            /\ phase' \in {"closed", "crashed"}
  /\ UNCHANGED <<in_tags, out_tags, contract_gpu, options, initialized_, color_,
                 mask_channel_, use_gpu_, gpu_helper_, outputs, clock, textures,
                 created, init_writes, last>>

Next == GetContract \/ Open \/ Process \/ Close

Spec == Init /\ [][Next]_vars

TypeOK ==
  /\ phase \in {"constructed", "rejected", "contract_ok", "open_failed", "opened",
                "failed", "closed", "crashed"}
  /\ in_tags \subseteq InputTags
  /\ out_tags \subseteq OutputTags
  /\ initialized_ \in BOOLEAN
  /\ use_gpu_ \in BOOLEAN
  /\ program_ \in GlHandles
  /\ clock \in 0..MaxFrames
  /\ textures \subseteq PerFrameTextures

\* =================================================================== claims
\* The packets the output streams hold for timestamp ts.
PacketsAt(ts) == {i \in 1..Len(outputs) : outputs[i].ts = ts}

\* The latest Process call had a mask stream and no packet on it.
MaskInputEmpty ==
  last.called /\ MaskTag(use_gpu_) \in in_tags /\ last.mask.empty

\* The latest Process call had a packet on its mask stream.
MaskInputPresent ==
  last.called /\ MaskTag(use_gpu_) \in in_tags /\ ~last.mask.empty

\* The lazy InitGpu of the latest Process call failed.
InitGpuFailed ==
  use_gpu_ /\ ~last.was_initialized /\ ~initialized_ /\ program_ = 0

\* Nodes whose tags are those of one path only, as the class comment asks.
CpuNode == in_tags = {"IMAGE", "MASK"} /\ out_tags = {"IMAGE"}
GpuNode == in_tags = {"IMAGE_GPU", "MASK_GPU"} /\ out_tags = {"IMAGE_GPU"}

\* C1 (as stated): on both paths, a Process call whose mask input is empty
\* returns success and emits no packet for its timestamp.  Stated for the
\* nodes whose tags are those of one path only.
C1_EmptyMaskAlwaysSucceeds ==
  (MaskInputEmpty /\ (CpuNode \/ GpuNode)) =>
    (last.status = "ok" /\ PacketsAt(last.ts) = {})

\* C1 (amended): a Process call whose mask input is empty emits no packet for
\* its timestamp; it returns success, except that on the GPU path it returns
\* the error of InitGpu when the lazy initialisation of that call fails.
C1_EmptyMaskNoOutput ==
  MaskInputEmpty =>
    /\ PacketsAt(last.ts) = {}
    /\ last.emitted = 0
    /\ IF InitGpuFailed THEN last.status = "error" ELSE last.status = "ok"

\* C1 witness: on the GPU path a frame with an image and no mask is skipped
\* with success after an earlier frame was rendered.
C1_Witness ==
  /\ MaskInputEmpty /\ use_gpu_ /\ ~last.img.empty
  /\ last.status = "ok" /\ last.ts = 2 /\ Len(outputs) = 1

\* C2: a Process call that receives a mask and returns success adds exactly
\* one packet, on the output tag of the path's residency kind and with the
\* call's input timestamp; no call adds more than one packet.
C2_OnePacketPerFrame ==
  /\ \A t \in 1..MaxFrames : Cardinality(PacketsAt(t)) <= 1
  /\ \A i \in 1..Len(outputs) : outputs[i].ts \in 1..clock
  /\ (MaskInputPresent /\ last.status = "ok") =>
       /\ last.emitted = 1
       /\ Cardinality(PacketsAt(last.ts)) = 1
       /\ outputs[Len(outputs)] = [tag |-> ImageTag(use_gpu_), ts |-> last.ts]

\* C2 witness: two frames with masks, two packets, on the CPU path.
C2_Witness ==
  /\ ~use_gpu_ /\ MaskInputPresent /\ last.status = "ok"
  /\ clock = 2 /\ Len(outputs) = 2

\* A tag configuration uses CPU tags, GPU tags.
UsesCpuTags == "IMAGE" \in in_tags \/ "MASK" \in in_tags \/ "IMAGE" \in out_tags
UsesGpuTags ==
  "IMAGE_GPU" \in in_tags \/ "MASK_GPU" \in in_tags \/ "IMAGE_GPU" \in out_tags

\* C3: GetContract accepts a configuration only if it has exactly one input
\* image tag and exactly one output image tag and does not mix CPU and GPU
\* tags.
C3_ContractRejectsMixed ==
  phase \notin {"constructed", "rejected"} =>
    /\ Cardinality(in_tags \cap {"IMAGE", "IMAGE_GPU"}) = 1
    /\ Cardinality(out_tags \cap {"IMAGE", "IMAGE_GPU"}) = 1
    /\ ~(UsesCpuTags /\ UsesGpuTags)

\* Open has run and returned OK.
OpenSucceeded == phase \in {"opened", "failed", "closed", "crashed"}

\* C4: Open fails when the options carry no color; after a successful Open,
\* hence whenever Process runs, color_ holds exactly the three components of
\* the color of the options.
C4_ColorLoaded ==
  /\ (phase = "open_failed" \/ OpenSucceeded) =>
       (~options.has_color => phase = "open_failed")
  /\ OpenSucceeded =>
       (options.has_color /\ Len(color_) = 3 /\ color_ = options.color)
  /\ last.called => (Len(color_) = 3 /\ color_ = options.color)

\* C4 witness: a frame was blended with the configured color.
C4_Witness ==
  /\ last.called /\ last.status = "ok" /\ last.emitted = 1
  /\ color_ = <<255, 128, 0>>

\* The latest call was on the CPU path with a source image of a channel
\* count other than 3.
NonRgbSource ==
  last.called /\ ~use_gpu_ /\ ~last.img.empty /\ last.img.channels # 3

PixelGrid == {<<r, g, b>> : r \in {0, 127, 255}, g \in {0, 127, 255}, b \in {0, 127, 255}}

\* C6: in the CPU blend, every pixel whose resized mask weight is 0 comes out
\* equal to the source pixel in all three channels.
C6_ZeroWeightKeepsPixel ==
  (last.called /\ ~use_gpu_ /\ Len(last.out) > 0) =>
    /\ Len(last.out) = Len(last.img.data)
    /\ Len(last.mask_full) = Len(last.img.data)
    /\ \A i \in 1..Len(last.out) :
         last.mask_full[i] = 0 => last.out[i] = last.img.data[i]
    /\ \A px \in PixelGrid : MixColor(px, color_, 0) = px

\* C6 witness: a frame with one pixel of weight 0 and one pixel the blend
\* changed.
C6_Witness ==
  /\ last.called /\ ~use_gpu_ /\ last.status = "ok" /\ Len(last.out) = 2
  /\ last.mask_full[1] = 0 /\ last.out[1] = last.img.data[1]
  /\ last.mask_full[2] # 0 /\ last.out[2] # last.img.data[2]

\* C7: on the GPU path program_ is written by InitGpu exactly once, in the
\* first Process call; later Process calls leave it as it was; it stays
\* nonzero until Close, which resets it.
C7_ProgramWrittenOnce ==
  /\ init_writes <= 1
  /\ ~use_gpu_ => (init_writes = 0 /\ program_ = 0)
  /\ (use_gpu_ /\ clock = 0) => (init_writes = 0 /\ program_ = 0)
  /\ (use_gpu_ /\ clock >= 1) => init_writes = 1
  /\ (use_gpu_ /\ last.called /\ last.was_initialized /\ phase # "closed") =>
       (program_ = last.program_before /\ program_ # 0 /\ initialized_)
  /\ (initialized_ /\ phase # "closed") => program_ # 0
  /\ (use_gpu_ /\ phase = "closed") => program_ = 0

\* C7 witness: two frames on the GPU path, the second one reading the
\* program the first one compiled, then Close.
C7_Witness ==
  /\ use_gpu_ /\ phase = "closed" /\ clock = 2
  /\ last.was_initialized /\ last.status = "ok" /\ last.program_before # 0
  /\ init_writes = 1 /\ program_ = 0

\* C8: when a Process call has returned (with success or with an error), no
\* per-frame texture is held.
C8_TexturesReleased ==
  (last.status # "crash") => textures = {}

\* C8 witness: two rendered GPU frames, three textures created in each, none
\* held.
C8_Witness ==
  /\ use_gpu_ /\ last.status = "ok" /\ last.made = 3 /\ created = 6
  /\ textures = {}

\* C9: on the CPU path, for masks of 1, 3 or 4 channels and every
\* mask_channel value, the plane index the extraction uses is smaller than
\* the channel count of the mask.
C9_PlaneWithinMask ==
  (last.called /\ ~use_gpu_ /\ last.plane >= 0
     /\ last.mask.channels \in MaskChannelCounts) =>
    last.plane < last.mask.channels

\* C10: RunInGlContext is requested only by an instance on the GPU path whose
\* GPU helper was opened; an instance on the CPU path never requests it.
\* Stated for the nodes whose tags are those of one path only.
C10_GlOnlyOnGpuPath ==
  (CpuNode \/ GpuNode) => \A c \in gl_calls : c.use_gpu /\ c.helper

====
